---- MODULE Spec2Model ----
(***************************************************************************)
(* A model of deluge-tune-crafter's core:                                  *)
(*   - XMLInjector (core/xml_injector.py): the preset/colour allocator and *)
(*     inject_multiple_clips, one generation pass over a template;         *)
(*   - ConversionContext and MidiConverter.convert_midi_to_clips           *)
(*     (core/midi_converter.py): tick rescaling and the lane encoder;      *)
(*   - MidiConverter.__init__, and the batches of main.py and of           *)
(*     core/basic_pitch_processor.py over audio files and MIDI files.      *)
(* Python strings that the code builds or parses are sequences of          *)
(* one-character strings, so that formatting and parsing are computed.     *)
(***************************************************************************)
EXTENDS Integers, Sequences, FiniteSets, TLC

VARIABLES
    used_presets,   \* XMLInjector.used_presets
    used_colors,    \* XMLInjector.used_colors
    rnd,            \* state of the random generator behind random.choice
    ret,            \* outcome of the last direct allocator call
    issuedP,        \* history: presets returned since the last clear, in order
    issuedC,        \* history: colours returned since the last clear, in order
    pc,             \* position of inject_multiple_clips: idle, loop, write, done
    clip_data,      \* the argument of the running pass
    template,       \* the base XML file on disk
    session_clips,  \* children of the in-memory sessionClips element
    template_clip,  \* the element found at line 104
    idx,            \* number of loop iterations completed
    result,         \* return value of the pass: "none", TRUE or FALSE
    output,         \* data/deluge_songs/output.xml on disk
    prev_output,    \* history: output.xml as it was when the pass began
    prev_used,      \* history: the used-sets as they were when the pass began
    midi,           \* MidiConverter.midi: resolution and instruments
    cpc,            \* converter position: building the input, or converted
    clips,          \* what convert_midi_to_clips returned
    log,            \* the warnings it logged, in order
    ctx,            \* a ConversionContext: source_ppq and dest_ppq
    rpc,            \* rescaler position: new, dest (converted), back
    t_src,          \* the tick given to convert_time
    t_dst,          \* what convert_time returned
    t_back,         \* what convert_time_dtos returned for t_dst
    audio_files,    \* the audio files of the input folder, in loop order
    midi_files,     \* the MIDI files of the MIDI folder, in loop order
    bpc,            \* batch position: idle, audio, midi, done, raised
    bidx,           \* number of iterations of the running loop completed
    converted,      \* the MIDI files (by number) whose clips were collected
    reports,        \* what the batch logged, in order
    converter       \* the last MidiConverter construction and its outcome

allocVars == <<used_presets, used_colors, rnd, ret, issuedP, issuedC>>
passVars == <<pc, clip_data, template, session_clips, template_clip, idx,
              result, output, prev_output, prev_used>>
convVars == <<midi, cpc, clips, log>>
rescVars == <<ctx, rpc, t_src, t_dst, t_back>>
batchVars == <<audio_files, midi_files, bpc, bidx, converted, reports,
               converter>>
vars == <<allocVars, passVars, convVars, rescVars, batchVars>>

(***************************************************************************)
(* Bounds of the model.                                                    *)
(***************************************************************************)
MaxPPQ == 8         \* source_ppq and dest_ppq range over 1..MaxPPQ
MaxTick == 12       \* ticks given to the rescaler: -MaxTick..MaxTick
MaxNotes == 3       \* notes in one MIDI file
MaxInstruments == 2 \* instruments (tracks) in one MIDI file
MaxSeed == 1        \* generator states 0..MaxSeed
VelocitySlack == 20 \* note velocities range over -VelocitySlack..127+VelocitySlack
MaxFiles == 2       \* files in the audio folder, and in the MIDI folder
SmallClips == 3     \* clip_data lists of 0..SmallClips clips are tried, and
                    \* those of 16 and of 17 clips

(***************************************************************************)
(* Generic helpers.                                                        *)
(***************************************************************************)
Range(s) == {s[k] : k \in DOMAIN s}

Distinct(s) == \A a, b \in DOMAIN s : a # b => s[a] # s[b]

Digit == <<"0", "1", "2", "3", "4", "5", "6", "7", "8", "9">>

RECURSIVE NatStr(_)
NatStr(n) == IF n < 10 THEN <<Digit[n + 1]>>
             ELSE NatStr(n \div 10) \o <<Digit[(n % 10) + 1]>>

\* Python's str(int): decimal digits, with a leading minus sign.
PyStr(n) == IF n < 0 THEN <<"-">> \o NatStr(-n) ELSE NatStr(n)

DigitVal(c) == CHOOSE d \in 0..9 : Digit[d + 1] = c

RECURSIVE NatVal(_)
NatVal(s) == IF Len(s) = 0 THEN 0
             ELSE 10 * NatVal(SubSeq(s, 1, Len(s) - 1)) + DigitVal(s[Len(s)])

\* Python's int(str) on a decimal literal.
PyInt(s) == IF Len(s) > 0 /\ s[1] = "-" THEN -NatVal(Tail(s)) ELSE NatVal(s)

(***************************************************************************)
(* The allocator: XMLInjector.get_unique_preset / get_unique_color.        *)
(***************************************************************************)
PRESET_NAMES == <<
    "000 Rich Saw Bass", "001 Sync Bass", "002 Basic Square Bass",
    "003 Synthwave Bass", "005 Sweet Mono Bass", "006 Vaporwave Bass",
    "007 Detuned Saw Bass", "009 Hoover Bass", "019 Fizzy Strings",
    "026 Pw Organ", "030 Distant Porta", "040 Spacer Leader", "073 Piano",
    "074 Electric Piano", "076 Organ", "078 House" >>

\* range(-63, 64)
COLOR_RANGE == [k \in 1..127 |-> k - 64]

\* random.choice(list(s)): the generator state r picks one position of the
\* list; `drawn` is the number of draws already made from this pool.
random_choice(pool, avail, r, drawn) ==
    LET lst == SelectSeq(pool, LAMBDA x : x \in avail)
    IN  lst[((r * (drawn + 1)) % Len(lst)) + 1]

available_presets_all(used) == Range(PRESET_NAMES)

available_presets(used) == Range(PRESET_NAMES) \ used

available_colors_all(used) == Range(COLOR_RANGE)

available_colors(used) == Range(COLOR_RANGE) \ used

\* The outcome of one call: raised, or the value and the new used-set.
get_unique_preset(used, r) ==
    IF available_presets(used) = {}
    THEN [raised |-> TRUE, error |-> "No more unique presets available",
          value |-> "", used |-> used]
    ELSE LET preset == random_choice(PRESET_NAMES, available_presets(used),
                                     r, Cardinality(used))
         IN  [raised |-> FALSE, error |-> "", value |-> preset,
              used |-> used \cup {preset}]

get_unique_color(used, r) ==
    IF available_colors(used) = {}
    THEN [raised |-> TRUE, error |-> "No more unique colors available",
          value |-> 0, used |-> used]
    ELSE LET color == random_choice(COLOR_RANGE, available_colors(used),
                                    r, Cardinality(used))
         IN  [raised |-> FALSE, error |-> "", value |-> color,
              used |-> used \cup {color}]

\* set.clear()
cleared_keep(s) == s

cleared(s) == {}

NoRet == [op |-> "none", raised |-> FALSE, preset |-> "", color |-> 0]

(***************************************************************************)
(* Direct use of the allocator on one injector: any sequence of calls.     *)
(***************************************************************************)
CallGetUniquePreset ==
    LET o == get_unique_preset(used_presets, rnd)
    IN  /\ pc = "idle"
        /\ used_presets' = o.used
        /\ ret' = [op |-> "preset", raised |-> o.raised,
                   preset |-> o.value, color |-> 0]
        /\ issuedP' = IF o.raised THEN issuedP ELSE Append(issuedP, o.value)
        /\ UNCHANGED <<used_colors, rnd, issuedC, passVars, convVars,
                       rescVars, batchVars>>

CallGetUniqueColor ==
    LET o == get_unique_color(used_colors, rnd)
    IN  /\ pc = "idle"
        /\ used_colors' = o.used
        /\ ret' = [op |-> "color", raised |-> o.raised,
                   preset |-> "", color |-> o.value]
        /\ issuedC' = IF o.raised THEN issuedC ELSE Append(issuedC, o.value)
        /\ UNCHANGED <<used_presets, rnd, issuedP, passVars, convVars,
                       rescVars, batchVars>>

\* The reset of lines 95-96, with the generator in any state afterwards.
CallReset ==
    /\ pc = "idle"
    /\ used_presets # {} \/ used_colors # {}
    /\ used_presets' = cleared(used_presets)
    /\ used_colors' = cleared(used_colors)
    /\ \E r \in 0..MaxSeed : rnd' = r
    /\ ret' = NoRet
    /\ issuedP' = <<>>
    /\ issuedC' = <<>>
    /\ UNCHANGED <<passVars, convVars, rescVars, batchVars>>

(***************************************************************************)
(* Python values and XML elements.                                         *)
(* A value that a caller puts in a clip record carries its Python type,    *)
(* because ElementTree stores any value and serialises only str.           *)
(***************************************************************************)
NoElem == [tag |-> "none"]

StrV(s) == [type |-> "str", val |-> s]

IntV(n) == [type |-> "int", val |-> n]

\* A noteRow element as the template file holds it.
TemplateRow == [tag |-> "noteRow",
                attrib |-> [y |-> StrV(PyStr(60)),
                            noteDataWithLift |-> StrV(<<"0", "x">>)]]

\* An instrumentClip element of a template, with or without a noteRows child.
TemplateClipElem(hasNoteRows) ==
    [tag |-> "instrumentClip",
     attrib |-> [section |-> <<"1">>, length |-> PyStr(192),
                 instrumentPresetName |-> "073 Piano"],
     noteRows |-> [present |-> hasNoteRows,
                   rows |-> IF hasNoteRows THEN <<TemplateRow>> ELSE <<>>]]

AudioClipElem == [tag |-> "audioClip", attrib |-> [length |-> PyStr(96)],
                  noteRows |-> [present |-> FALSE, rows |-> <<>>]]

\* The base XML files tried: loadable or not, with or without a
\* sessionClips element, and the children of that element.
Tpl(loadable, hasSession, children) ==
    [loadable |-> loadable, sessionClips |-> hasSession, children |-> children]

T_ok == Tpl(TRUE, TRUE, <<TemplateClipElem(TRUE)>>)
T_busy == Tpl(TRUE, TRUE, <<AudioClipElem, TemplateClipElem(TRUE),
                            TemplateClipElem(FALSE)>>)
T_unloadable == Tpl(FALSE, FALSE, <<>>)
T_nosession == Tpl(TRUE, FALSE, <<>>)
T_noclip == Tpl(TRUE, TRUE, <<AudioClipElem>>)
T_norows == Tpl(TRUE, TRUE, <<TemplateClipElem(FALSE)>>)

Templates == {T_ok, T_busy, T_unloadable, T_nosession, T_noclip, T_norows}

WellFormedTemplate(t) ==
    /\ t.loadable /\ t.sessionClips
    /\ \E k \in DOMAIN t.children :
          /\ t.children[k].tag = "instrumentClip"
          /\ \A j \in 1..(k - 1) : t.children[j].tag # "instrumentClip"
          /\ t.children[k].noteRows.present

\* Clip records as convert_midi_to_clips builds them: the k-th has k % 3
\* note rows and length 48 * k.
GoodRow(k, j) == [y |-> StrV(PyStr(59 + k + j)),
                  noteDataWithLift |-> StrV(<<"0", "x">>)]

GoodClip(k) == [note_rows |-> [j \in 1..(k % 3) |-> GoodRow(k, j)],
                length |-> 48 * k]

\* Malformed clip records: a missing key, or a pitch that is not a str.
BadKinds == {"no_length", "no_note_rows", "int_y"}

BadClip(k, kind) ==
    CASE kind = "no_length" -> [note_rows |-> GoodClip(k).note_rows]
      [] kind = "no_note_rows" -> [length |-> 48 * k]
      [] kind = "int_y" ->
            [note_rows |-> <<[y |-> IntV(59 + k),
                              noteDataWithLift |-> StrV(<<"0", "x">>)]>>,
             length |-> 48 * k]

\* The lists tried: n good clips, or n - 1 good clips and a malformed last.
ClipList(n, kind) ==
    [k \in 1..n |-> IF k = n /\ kind \in BadKinds THEN BadClip(k, kind)
                    ELSE GoodClip(k)]

ClipCounts == 0..SmallClips \cup {Len(PRESET_NAMES), Len(PRESET_NAMES) + 1}

ClipLists == {ClipList(n, "good") : n \in ClipCounts}
             \cup {ClipList(n, kind) : n \in ClipCounts \ {0}, kind \in BadKinds}

WellFormedRow(r) ==
    /\ DOMAIN r = {"y", "noteDataWithLift"}
    /\ r.y.type = "str" /\ r.noteDataWithLift.type = "str"

WellFormedClips(cd) ==
    \A k \in DOMAIN cd :
        /\ DOMAIN cd[k] = {"note_rows", "length"}
        /\ \A j \in DOMAIN cd[k].note_rows : WellFormedRow(cd[k].note_rows[j])

(***************************************************************************)
(* XMLInjector.inject_multiple_clips, one pass: BeginPass (lines 85-109),  *)
(* CloneClip (one iteration of the loop of lines 112-141), WriteOutput     *)
(* (lines 143-149); every exception ends the pass with False (151-153).    *)
(***************************************************************************)
\* Element.set(key, value)
set_attr(attrib, key, value) == (key :> value) @@ attrib

\* A Python object: what it holds (val), and which object it is (ref); a
\* write through one name is seen through another name of the same object.
Obj(ref, val) == [ref |-> ref, val |-> val]

\* A "copy" that is the object it was given.
deepcopy_same_object(obj) == obj

\* copy.deepcopy(element): a new object that holds the same.
deepcopy(obj) == Obj("new_clip", obj.val)

\* len(clip_data) > len(self.PRESET_NAMES)
too_many_clips_off(cd) == Len(cd) > Len(PRESET_NAMES) + 1

too_many_clips(cd) == Len(cd) > Len(PRESET_NAMES)

\* session_clips.find("instrumentClip"): the first such child, if any.
HasInstrumentClip(children) ==
    \E k \in DOMAIN children : children[k].tag = "instrumentClip"

find_instrument_clip(children) ==
    LET k == CHOOSE m \in DOMAIN children :
                 /\ children[m].tag = "instrumentClip"
                 /\ \A j \in 1..(m - 1) : children[j].tag # "instrumentClip"
    IN  children[k]

\* session_clips.clear()
clear_children_keep(children) == children

clear_children(children) == <<>>

\* The noteRow elements of lines 135-138 for one clip record.
row_elements(note_rows) ==
    [j \in DOMAIN note_rows |->
        [tag |-> "noteRow",
         attrib |-> [y |-> note_rows[j].y,
                     noteDataWithLift |-> note_rows[j].noteDataWithLift]]]

Raised(msg, usedP, usedC) ==
    [raised |-> TRUE, error |-> msg, clip |-> NoElem,
     usedP |-> usedP, usedC |-> usedC, presets |-> <<>>, colors |-> <<>>]

\* What the object named template_clip holds after an iteration that built
\* new_clip: what was written to new_clip if the two are one object.
template_after(tclip, copy, new_clip) ==
    IF copy.ref = "template_clip" THEN new_clip ELSE tclip

\* One iteration of the loop: the populated clone, or the exception raised,
\* with the used-sets as the iteration leaves them.
clone_clip(tclip, data, usedP, usedC, r) ==
    LET p == get_unique_preset(usedP, r)
        c == get_unique_color(usedC, r)
        new_clip == deepcopy(Obj("template_clip", tclip)).val
    IN  IF p.raised THEN Raised(p.error, usedP, usedC)
        ELSE IF c.raised THEN
            [Raised(c.error, p.used, usedC) EXCEPT !.presets = <<p.value>>]
        ELSE LET out == [Raised("", p.used, c.used) EXCEPT
                            !.presets = <<p.value>>, !.colors = <<c.value>>]
             IN  IF "length" \notin DOMAIN data
                 THEN [out EXCEPT !.error = "KeyError: length"]
                 ELSE IF ~new_clip.noteRows.present
                 THEN [out EXCEPT !.error = "Could not find noteRows"]
                 ELSE IF "note_rows" \notin DOMAIN data
                 THEN [out EXCEPT !.error = "KeyError: note_rows"]
                 ELSE IF \E j \in DOMAIN data.note_rows :
                            ~({"y", "noteDataWithLift"}
                                \subseteq DOMAIN data.note_rows[j])
                 THEN [out EXCEPT !.error = "KeyError: note row"]
                 ELSE [out EXCEPT
                     !.raised = FALSE,
                     !.clip =
                       [tag |-> new_clip.tag,
                        attrib |->
                          set_attr(set_attr(set_attr(set_attr(new_clip.attrib,
                              "section", <<"0">>),
                              "instrumentPresetName", p.value),
                              "colourOffset", PyStr(c.value)),
                              "length", PyStr(data.length)),
                        noteRows |-> [present |-> TRUE,
                                      rows |-> row_elements(data.note_rows)]]]

\* ElementTree serialises str attribute values only.
Serializable(children) ==
    \A k \in DOMAIN children :
        \A j \in DOMAIN children[k].noteRows.rows :
            LET a == children[k].noteRows.rows[j].attrib
            IN  \A key \in DOMAIN a : a[key].type = "str"

\* tree.write(output_path, ...): the file is opened for writing, which
\* truncates it, and then the tree is serialised into it; a value that cannot
\* be serialised raises with the file left cut short.
NoFile == [kind |-> "absent"]

Partial == [kind |-> "partial"]

Document(children) == [kind |-> "document", sessionClips |-> children]

written_file(children) ==
    IF Serializable(children) THEN Document(children) ELSE Partial

Fail ==
    /\ pc' = "done"
    /\ result' = FALSE

BeginPass(cd, t) ==
    /\ pc = "idle"
    /\ clip_data' = cd
    /\ template' = t
    /\ prev_output' = output
    /\ prev_used' = <<used_presets, used_colors>>
    /\ \E r \in 0..MaxSeed : rnd' = r
    /\ ret' = NoRet
    /\ idx' = 0
    /\ UNCHANGED <<output, convVars, rescVars, batchVars>>
    /\ IF too_many_clips(cd) \/ ~t.loadable
       THEN /\ Fail
            /\ UNCHANGED <<used_presets, used_colors, issuedP, issuedC,
                           session_clips, template_clip>>
       ELSE /\ used_presets' = cleared(used_presets)
            /\ used_colors' = cleared(used_colors)
            /\ issuedP' = <<>>
            /\ issuedC' = <<>>
            /\ IF ~t.sessionClips
               THEN Fail /\ UNCHANGED <<session_clips, template_clip>>
               ELSE IF ~HasInstrumentClip(t.children)
               THEN /\ Fail
                    /\ session_clips' = t.children
                    /\ UNCHANGED template_clip
               ELSE /\ template_clip' = find_instrument_clip(t.children)
                    /\ session_clips' = clear_children(t.children)
                    /\ pc' = "loop"
                    /\ UNCHANGED result

CloneClip ==
    /\ pc = "loop"
    /\ idx < Len(clip_data)
    /\ LET o == clone_clip(template_clip, clip_data[idx + 1],
                           used_presets, used_colors, rnd)
       IN  /\ used_presets' = o.usedP
           /\ used_colors' = o.usedC
           /\ issuedP' = issuedP \o o.presets
           /\ issuedC' = issuedC \o o.colors
           /\ IF o.raised
              THEN Fail /\ UNCHANGED <<session_clips, idx, template_clip>>
              ELSE /\ session_clips' = Append(session_clips, o.clip)
                   /\ idx' = idx + 1
                   /\ template_clip' =
                          template_after(template_clip,
                              deepcopy(Obj("template_clip", template_clip)),
                              o.clip)
                   /\ UNCHANGED <<pc, result>>
    /\ UNCHANGED <<rnd, ret, clip_data, template, output,
                   prev_output, prev_used, convVars, rescVars, batchVars>>

WriteOutput ==
    /\ pc = "loop"
    /\ idx = Len(clip_data)
    /\ output' = written_file(session_clips)
    /\ pc' = "done"
    /\ result' = (written_file(session_clips).kind = "document")
    /\ UNCHANGED <<allocVars, clip_data, template, session_clips,
                   template_clip, idx, prev_output, prev_used, convVars,
                   rescVars, batchVars>>

\* The caller of main.py lines 98-122: on success it moves output.xml to its
\* final place; on failure it leaves the file as it is. The pass's locals die.
Collect ==
    /\ pc = "done"
    /\ pc' = "idle"
    /\ output' = IF result = TRUE THEN NoFile ELSE output
    /\ result' = "none"
    /\ clip_data' = <<>>
    /\ template' = [kind |-> "none"]
    /\ session_clips' = <<>>
    /\ template_clip' = NoElem
    /\ idx' = 0
    /\ prev_output' = NoFile
    /\ prev_used' = <<{}, {}>>
    /\ UNCHANGED <<allocVars, convVars, rescVars, batchVars>>


(***************************************************************************)
(* core/midi_converter.py: hex_lz32, ConversionContext and                 *)
(* MidiConverter.convert_midi_to_clips.                                    *)
(* A note is [pitch, start, end, velocity] with start and end the ticks    *)
(* that self.midi.time_to_tick gives for note.start and note.end; sorting  *)
(* by note.start is sorting by start tick.                                 *)
(***************************************************************************)
HexDigit == <<"0", "1", "2", "3", "4", "5", "6", "7", "8", "9",
              "A", "B", "C", "D", "E", "F">>

RECURSIVE HexNat(_)
HexNat(n) == IF n < 16 THEN <<HexDigit[n + 1]>>
             ELSE HexNat(n \div 16) \o <<HexDigit[(n % 16) + 1]>>

\* Zero padding to a minimum width: the 0w of a format specification.
ZeroPad(s, width) ==
    [k \in 1..(IF Len(s) < width THEN width - Len(s) ELSE 0) |-> "0"] \o s

\* f"{v:0wX}" for an int v: a sign for a negative value, then the padded digits.
FormatX(v, width) ==
    IF v < 0 THEN <<"-">> \o ZeroPad(HexNat(-v), width - 1)
    ELSE ZeroPad(HexNat(v), width)

Pow16 == <<1, 16, 256, 4096, 65536, 1048576, 16777216, 268435456>>

hex_lz32_narrow(v) == FormatX(v, 7)

\* f"{v & 0xFFFFFFFF:08X}": the masked value has at most 8 hex digits and the
\* format pads to 8, so the result is the 8 low hex digits of v in two's
\* complement, the k-th from the left being floor(v / 16^(8-k)) mod 16.
hex_lz32(v) == [k \in 1..8 |-> HexDigit[((v \div Pow16[9 - k]) % 16) + 1]]

\* str.upper(), on the characters a format can produce.
UpperChar(c) ==
    CASE c = "a" -> "A" [] c = "b" -> "B" [] c = "c" -> "C"
      [] c = "d" -> "D" [] c = "e" -> "E" [] c = "f" -> "F"
      [] OTHER -> c

upper(s) == [k \in DOMAIN s |-> UpperChar(s[k])]

\* Rounding with ties going up.
round_div_half_up(n, d) == (2 * n + d) \div (2 * d)

\* Python's round(n / d) for d # 0: to the nearest integer, ties to even.
\* n / d is (-n) / (-d), which gives a positive divisor.
round_div(n, d) ==
    LET num == IF d < 0 THEN -n ELSE n
        den == IF d < 0 THEN -d ELSE d
        q == num \div den
        r == num % den
    IN  IF 2 * r < den THEN q
        ELSE IF 2 * r > den THEN q + 1
        ELSE IF q % 2 = 0 THEN q ELSE q + 1

\* n / d raises ZeroDivisionError.
ZeroDivision(d) == d = 0

DEST_PPQ == 48

\* ConversionContext.convert_time
convert_time(t, source_ppq, dest_ppq) == round_div(t * dest_ppq, source_ppq)

convert_time_dtos_floor(t, source_ppq, dest_ppq) == (t * source_ppq) \div dest_ppq

\* ConversionContext.convert_time_dtos
convert_time_dtos(t, source_ppq, dest_ppq) == round_div(t * source_ppq, dest_ppq)

\* sorted(seq, key=...): stable, ascending; keys[k] is the key of seq[k].
RECURSIVE insert_pair(_, _)
insert_pair(x, s) ==
    IF s = <<>> THEN <<x>>
    ELSE IF x[1] < s[Len(s)][1]
         THEN Append(insert_pair(x, SubSeq(s, 1, Len(s) - 1)), s[Len(s)])
         ELSE Append(s, x)

RECURSIVE sort_pairs(_)
sort_pairs(s) ==
    IF s = <<>> THEN <<>>
    ELSE insert_pair(s[Len(s)], sort_pairs(SubSeq(s, 1, Len(s) - 1)))

sorted(seq, keys) ==
    LET ps == sort_pairs([k \in DOMAIN seq |-> <<keys[k], seq[k]>>])
    IN  [k \in DOMAIN ps |-> ps[k][2]]

\* The notes left in the order they came in.
sort_by_start_unsorted(notes) == notes

\* sorted(notes, key=lambda n: n.start)
sort_by_start(notes) == sorted(notes, [k \in DOMAIN notes |-> notes[k].start])

\* The keys of `lanes` in insertion order: each pitch at its first note.
RECURSIVE lane_keys(_)
lane_keys(notes) ==
    IF notes = <<>> THEN <<>>
    ELSE LET before == lane_keys(SubSeq(notes, 1, Len(notes) - 1))
             pitch == notes[Len(notes)].pitch
         IN  IF pitch \in Range(before) THEN before ELSE Append(before, pitch)

lane_notes(notes, pitch) == SelectSeq(notes, LAMBDA n : n.pitch = pitch)

\* min(round(note.velocity), 127)
capped_velocity(velocity) == IF velocity < 127 THEN velocity ELSE 127

\* The record with the lift constant before the velocity.
note_record_lift_first(t_dstart, t_ddur, t_dvel) ==
    upper(hex_lz32(t_dstart) \o hex_lz32(t_ddur) \o <<"4", "0">>
          \o FormatX(t_dvel, 2) \o <<"1", "4">>)

\* Lines 212-217: the record of one note.
note_record(t_dstart, t_ddur, t_dvel) ==
    upper(hex_lz32(t_dstart) \o hex_lz32(t_ddur) \o FormatX(t_dvel, 2)
          \o <<"4", "0">> \o <<"1", "4">>)

\* Lines 198-200.
raise_clip_max_never(clip_max, t_dnote_end) == clip_max

raise_clip_max(clip_max, t_dnote_end) ==
    IF t_dnote_end > clip_max THEN t_dnote_end ELSE clip_max

note_warnings_order_only(track_num, t_start_tick, last_start, last_end) ==
    IF t_start_tick <= last_start
    THEN <<[kind |-> "out_of_order", track |-> track_num,
            tick |-> t_start_tick, last |-> last_start]>>
    ELSE <<>>

\* The warnings with the overlap test missing an overlap of one tick.
note_warnings_late_overlap(track_num, t_start_tick, last_start, last_end) ==
    (IF t_start_tick <= last_start
     THEN <<[kind |-> "out_of_order", track |-> track_num,
             tick |-> t_start_tick, last |-> last_start]>>
     ELSE <<>>)
    \o
    (IF t_start_tick + 1 < last_end
     THEN <<[kind |-> "overlap", track |-> track_num,
             tick |-> t_start_tick, last |-> last_end]>>
     ELSE <<>>)

\* Lines 181-188: the warnings one note brings.
note_warnings(track_num, t_start_tick, last_start, last_end) ==
    (IF t_start_tick <= last_start
     THEN <<[kind |-> "out_of_order", track |-> track_num,
             tick |-> t_start_tick, last |-> last_start]>>
     ELSE <<>>)
    \o
    (IF t_start_tick < last_end
     THEN <<[kind |-> "overlap", track |-> track_num,
             tick |-> t_start_tick, last |-> last_end]>>
     ELSE <<>>)

\* The loop of lines 176-217 over one lane, from state `st`
\* = [laneh, last_start, last_end, clip_max, log].
RECURSIVE walk_lane(_, _, _, _)
walk_lane(pitch_notes_sorted, st, track_num, source_ppq) ==
    IF pitch_notes_sorted = <<>> THEN st
    ELSE LET note == Head(pitch_notes_sorted)
             t_start_tick == note.start
             t_dur_tick == note.end - t_start_tick
             t_end_tick == t_start_tick + t_dur_tick
             t_dstart == convert_time(t_start_tick, source_ppq, DEST_PPQ)
             t_ddur == convert_time(t_dur_tick, source_ppq, DEST_PPQ)
             t_dnote_end == t_dstart + t_ddur
             t_dvel == capped_velocity(note.velocity)
         IN  walk_lane(Tail(pitch_notes_sorted),
                 [laneh |-> st.laneh \o note_record(t_dstart, t_ddur, t_dvel),
                  last_start |-> t_start_tick,
                  last_end |-> t_end_tick,
                  clip_max |-> raise_clip_max(st.clip_max, t_dnote_end),
                  log |-> st.log \o note_warnings(track_num, t_start_tick,
                                                  st.last_start, st.last_end)],
                 track_num, source_ppq)

\* The loop of lines 168-220 over the lanes, from state
\* `st` = [note_rows, clip_max, log].
RECURSIVE walk_lanes(_, _, _, _, _)
walk_lanes(keys, notes_sorted, st, track_num, source_ppq) ==
    IF keys = <<>> THEN st
    ELSE LET pitch == Head(keys)
             pitch_notes_sorted ==
                 sort_by_start(lane_notes(notes_sorted, pitch))
             w == walk_lane(pitch_notes_sorted,
                            [laneh |-> <<"0", "x">>, last_start |-> -1,
                             last_end |-> -1, clip_max |-> st.clip_max,
                             log |-> st.log],
                            track_num, source_ppq)
         IN  walk_lanes(Tail(keys), notes_sorted,
                 [note_rows |-> Append(st.note_rows,
                                  [y |-> PyStr(pitch),
                                   noteDataWithLift |-> w.laneh]),
                  clip_max |-> w.clip_max,
                  log |-> w.log],
                 track_num, source_ppq)

MaxOf(S) == CHOOSE x \in S : \A y \in S : y <= x

\* sorted(note_rows, key=lambda x: int(x["y"]))
sort_note_rows_unsorted(note_rows) == note_rows

sort_note_rows(note_rows) ==
    sorted(note_rows, [k \in DOMAIN note_rows |-> PyInt(note_rows[k].y)])

\* Lines 146-231 for one instrument that has notes: the clip and the log.
convert_track(instrument, track_num, source_ppq, log0) ==
    LET notes_sorted == sort_by_start(instrument.notes)
        max_tick == MaxOf({notes_sorted[k].end : k \in DOMAIN notes_sorted})
        clip_max == convert_time(max_tick, source_ppq, DEST_PPQ)
        w == walk_lanes(lane_keys(notes_sorted), notes_sorted,
                        [note_rows |-> <<>>, clip_max |-> clip_max,
                         log |-> log0],
                        track_num, source_ppq)
    IN  [clip |-> [note_rows |-> sort_note_rows(w.note_rows),
                   length |-> w.clip_max],
         log |-> w.log]

\* The loop of lines 134-232 over the instruments from number track_num on.
RECURSIVE convert_from(_, _, _, _)
convert_from(instruments, track_num, source_ppq, st) ==
    IF track_num > Len(instruments) THEN st
    ELSE LET instrument == instruments[track_num]
         IN  IF instrument.is_drum
             THEN convert_from(instruments, track_num + 1, source_ppq, st)
             ELSE IF instrument.notes = <<>>
             THEN convert_from(instruments, track_num + 1, source_ppq,
                      [st EXCEPT !.log = Append(@,
                          [kind |-> "no_notes", track |-> track_num,
                           tick |-> 0, last |-> 0])])
             ELSE LET c == convert_track(instrument, track_num, source_ppq,
                                         st.log)
                  IN  convert_from(instruments, track_num + 1, source_ppq,
                          [clip_data |-> Append(st.clip_data, c.clip),
                           log |-> c.log])

\* The conversion with the drum flag of every instrument ignored.
convert_midi_to_clips_all_tracks(m) ==
    convert_from([k \in DOMAIN m.instruments |->
                     [m.instruments[k] EXCEPT !.is_drum = FALSE]],
                 1, m.resolution, [clip_data |-> <<>>, log |-> <<>>])

convert_midi_to_clips(m) ==
    convert_from(m.instruments, 1, m.resolution,
                 [clip_data |-> <<>>, log |-> <<>>])

(***************************************************************************)
(* The MIDI files tried: a resolution, and instruments built note by note. *)
(***************************************************************************)
Resolutions == {32, 96}

Pitches == {60, 100}

\* <<start tick, end tick>>: disjoint, overlapping and same-start pairs.
Spans == {<<0, 1>>, <<0, 2>>, <<1, 3>>}

\* Every span at pitch 60, so that one lane meets every anomaly, and the
\* last span at every pitch.
Notes == {[pitch |-> 60, start |-> sp[1], end |-> sp[2], velocity |-> 100] :
             sp \in Spans}
         \cup {[pitch |-> p, start |-> 1, end |-> 3, velocity |-> 100] :
                  p \in Pitches}

\* The notes of a drum instrument are never read (line 135-137): one kind.
DrumNote == [pitch |-> 36, start |-> 0, end |-> 1, velocity |-> 100]

NoteCount(instruments) ==
    LET RECURSIVE cnt(_)
        cnt(k) == IF k = 0 THEN 0 ELSE cnt(k - 1) + Len(instruments[k].notes)
    IN  cnt(Len(instruments))

AddInstrument(is_drum) ==
    /\ cpc = "build"
    /\ Len(midi.instruments) < MaxInstruments
    /\ midi' = [midi EXCEPT !.instruments =
                   Append(@, [is_drum |-> is_drum, notes |-> <<>>])]
    /\ UNCHANGED <<cpc, clips, log, allocVars, passVars, rescVars, batchVars>>

AddNote(note) ==
    /\ cpc = "build"
    /\ midi.instruments # <<>>
    /\ NoteCount(midi.instruments) < MaxNotes
    /\ midi.instruments[Len(midi.instruments)].is_drum <=> note = DrumNote
    /\ midi' = [midi EXCEPT !.instruments[Len(midi.instruments)].notes =
                   Append(@, note)]
    /\ UNCHANGED <<cpc, clips, log, allocVars, passVars, rescVars, batchVars>>

Convert ==
    /\ cpc = "build"
    /\ cpc' = "converted"
    /\ LET o == convert_midi_to_clips(midi)
       IN  clips' = o.clip_data /\ log' = o.log
    /\ UNCHANGED <<midi, allocVars, passVars, rescVars, batchVars>>

InitConv ==
    /\ midi = [resolution |-> 48, instruments |-> <<>>]
    /\ cpc = "idle"
    /\ clips = <<>>
    /\ log = <<>>

(***************************************************************************)
(* A ConversionContext used on its own: convert_time, then                 *)
(* convert_time_dtos on what it returned.                                  *)
(***************************************************************************)
ConvertTime(t) ==
    /\ rpc = "new"
    /\ t_src' = t
    /\ IF ZeroDivision(ctx.source_ppq)
       THEN rpc' = "raised" /\ UNCHANGED t_dst
       ELSE /\ t_dst' = convert_time(t, ctx.source_ppq, ctx.dest_ppq)
            /\ rpc' = "dest"
    /\ UNCHANGED <<ctx, t_back, allocVars, passVars, convVars,
                   batchVars>>

ConvertTimeDtos ==
    /\ rpc = "dest"
    /\ IF ZeroDivision(ctx.dest_ppq)
       THEN rpc' = "raised" /\ UNCHANGED t_back
       ELSE /\ t_back' = convert_time_dtos(t_dst, ctx.source_ppq, ctx.dest_ppq)
            /\ rpc' = "back"
    /\ UNCHANGED <<ctx, t_src, t_dst, allocVars, passVars, convVars,
                   batchVars>>

InitResc ==
    /\ ctx = [source_ppq |-> DEST_PPQ, dest_ppq |-> DEST_PPQ]
    /\ rpc = "idle"
    /\ t_src = 0
    /\ t_dst = 0
    /\ t_back = 0

(***************************************************************************)
(* MidiConverter.__init__ (core/midi_converter.py lines 104-115).          *)
(* The object is the set of attributes it has; reading an attribute that   *)
(* was never assigned raises AttributeError.  A MIDI file is "ok" or       *)
(* "unloadable" (pretty_midi.PrettyMIDI raises on it).                     *)
(***************************************************************************)
MidiKinds == {"ok", "unloadable"}

\* pretty_midi.PrettyMIDI(midi_path) raises.
load_raises(kind) == kind = "unloadable"

\* self.<name> on an object with the attributes attrs.
getattr_raises(attrs, name) == name \notin attrs

\* The constructor: the error the caller sees ("none" when it returns), the
\* attributes of the object and what its logger logged.
MidiConverter_init(kind) ==
    LET assigned == {"midi_path"}                          \* line 108
    IN  IF ~load_raises(kind)
        THEN [error |-> "none",                            \* lines 110-112
              attrs |-> assigned \cup {"midi", "logger"},
              logged |-> <<"Loaded MIDI file">>]
        ELSE IF getattr_raises(assigned, "logger")         \* line 114
        THEN [error |-> "AttributeError", attrs |-> assigned, logged |-> <<>>]
        ELSE [error |-> "load_error", attrs |-> assigned,  \* lines 114-115
              logged |-> <<"Failed to load MIDI file">>]

NoConverter == [error |-> "none", attrs |-> {}, logged |-> <<>>]

(***************************************************************************)
(* The batches: basic_pitch_processor.batch_process over the audio files   *)
(* (audio-to-MIDI stage) and the loops of main.py over the MIDI files      *)
(* (MIDI-to-clip stage).  An audio file is "ok" or "bad" (processing it    *)
(* raises inside the try block of process_audio_file).                     *)
(***************************************************************************)
AudioKinds == {"ok", "bad"}

SeqsUpTo(S, n) == UNION {[1..m -> S] : m \in 0..n}

Report(kind, stage, unit) == [kind |-> kind, stage |-> stage, unit |-> unit]

\* process_audio_file: what it logs, and whether it raises (lines 39-76).
process_audio_file(kind, unit) ==
    IF kind = "bad"
    THEN [raised |-> TRUE, logged |-> <<Report("failed", "audio", unit)>>]
    ELSE [raised |-> FALSE, logged |-> <<Report("processed", "audio", unit)>>]

\* run_full_process is called (main.py line 343): batch_process begins.  The
\* MIDI folder holds the files that earlier runs left in it.
RunFullProcess(af, mf) ==
    /\ bpc = "idle"
    /\ audio_files' = af
    /\ midi_files' = mf
    /\ bpc' = "audio"
    /\ bidx' = 0
    /\ UNCHANGED <<converted, reports, converter,
                   allocVars, passVars, convVars, rescVars>>

\* One iteration of the loop of batch_process (lines 122-131): an exception
\* of process_audio_file leaves batch_process and run_full_process.
ProcessAudioFile ==
    /\ bpc = "audio"
    /\ bidx < Len(audio_files)
    /\ LET o == process_audio_file(audio_files[bidx + 1], bidx + 1)
       IN  /\ reports' = reports \o o.logged
           /\ IF o.raised
              THEN bpc' = "raised" /\ UNCHANGED <<bidx, midi_files>>
              ELSE /\ bidx' = bidx + 1
                   /\ midi_files' = Append(midi_files, "ok")
                   /\ UNCHANGED bpc
    /\ UNCHANGED <<audio_files, converted, converter,
                   allocVars, passVars, convVars, rescVars>>

\* batch_process returns; main.py lines 61-73 collect the MIDI files.
CollectMidiFiles ==
    /\ bpc = "audio"
    /\ bidx = Len(audio_files)
    /\ bidx' = 0
    /\ IF midi_files = <<>>
       THEN /\ bpc' = "done"
            /\ reports' = Append(reports, Report("no_files", "midi", 0))
       ELSE /\ bpc' = "midi"
            /\ UNCHANGED reports
    /\ UNCHANGED <<audio_files, midi_files, converted, converter,
                   allocVars, passVars, convVars, rescVars>>

\* run_using_existing_midi is called (main.py lines 125-161).
RunUsingExistingMidi(mf) ==
    /\ bpc = "idle"
    /\ audio_files' = <<>>
    /\ midi_files' = mf
    /\ bidx' = 0
    /\ IF mf = <<>>
       THEN /\ bpc' = "done"
            /\ reports' = Append(reports, Report("no_files", "midi", 0))
       ELSE /\ bpc' = "midi"
            /\ UNCHANGED reports
    /\ UNCHANGED <<converted, converter,
                   allocVars, passVars, convVars, rescVars>>

\* One iteration of a MIDI loop of main.py (lines 75-88, 165-177, 217-226):
\* whatever the construction raises is caught and logged.
ConvertMidiFile ==
    /\ bpc = "midi"
    /\ bidx < Len(midi_files)
    /\ LET c == MidiConverter_init(midi_files[bidx + 1])
       IN  /\ converter' = c
           /\ IF c.error # "none"
              THEN /\ reports' = Append(reports,
                                        Report("failed", "midi", bidx + 1))
                   /\ UNCHANGED converted
              ELSE /\ reports' = Append(reports,
                                        Report("converted", "midi", bidx + 1))
                   /\ converted' = Append(converted, bidx + 1)
    /\ bidx' = bidx + 1
    /\ UNCHANGED <<audio_files, midi_files, bpc,
                   allocVars, passVars, convVars, rescVars>>

\* The MIDI loop ends (main.py line 90).
FinishBatch ==
    /\ bpc = "midi"
    /\ bidx = Len(midi_files)
    /\ bpc' = "done"
    /\ UNCHANGED <<audio_files, midi_files, bidx, converted, reports,
                   converter, allocVars, passVars, convVars, rescVars>>

InitBatch ==
    /\ audio_files = <<>>
    /\ midi_files = <<>>
    /\ bpc = "idle"
    /\ bidx = 0
    /\ converted = <<>>
    /\ reports = <<>>
    /\ converter = NoConverter

InitAlloc ==
    /\ used_presets = {}
    /\ used_colors = {}
    /\ rnd \in 0..MaxSeed
    /\ ret = NoRet
    /\ issuedP = <<>>
    /\ issuedC = <<>>

InitPass ==
    /\ pc = "idle"
    /\ clip_data = <<>>
    /\ template = [kind |-> "none"]
    /\ session_clips = <<>>
    /\ template_clip = NoElem
    /\ idx = 0
    /\ result = "none"
    /\ output = NoFile
    /\ prev_output = NoFile
    /\ prev_used = <<{}, {}>>

InitAllocator == InitAlloc /\ InitPass /\ InitConv /\ InitResc /\ InitBatch

NextAllocator == CallGetUniquePreset \/ CallGetUniqueColor \/ CallReset

SpecAllocator == InitAllocator /\ [][NextAllocator]_vars

InitInjector == InitAlloc /\ InitPass /\ InitConv /\ InitResc /\ InitBatch

NextInjector ==
    \/ \E cd \in ClipLists, t \in Templates : BeginPass(cd, t)
    \/ CloneClip
    \/ WriteOutput
    \/ Collect

SpecInjector == InitInjector /\ [][NextInjector]_vars

InitConverter ==
    /\ InitAlloc /\ InitPass /\ InitResc /\ InitBatch /\ rnd = 0
    /\ \E r \in Resolutions : midi = [resolution |-> r, instruments |-> <<>>]
    /\ cpc = "build"
    /\ clips = <<>>
    /\ log = <<>>

NextConverter ==
    \/ \E d \in BOOLEAN : AddInstrument(d)
    \/ \E n \in Notes \cup {DrumNote} : AddNote(n)
    \/ Convert

SpecConverter == InitConverter /\ [][NextConverter]_vars

InitRescaler ==
    /\ InitAlloc /\ InitPass /\ InitConv /\ InitBatch /\ rnd = 0
    /\ \E s \in 1..MaxPPQ, d \in 1..MaxPPQ :
          ctx = [source_ppq |-> s, dest_ppq |-> d]
    /\ rpc = "new"
    /\ t_src = 0
    /\ t_dst = 0
    /\ t_back = 0

NextRescaler ==
    \/ \E t \in -MaxTick..MaxTick : ConvertTime(t)
    \/ ConvertTimeDtos

SpecRescaler == InitRescaler /\ [][NextRescaler]_vars

\* A ConversionContext built from any two integers: the constructor (lines
\* 64-77) stores what it is given.
AnyPPQ == (0 - MaxPPQ)..MaxPPQ

InitContexts ==
    /\ InitAlloc /\ InitPass /\ InitConv /\ InitBatch /\ rnd = 0
    /\ \E s \in AnyPPQ, d \in AnyPPQ : ctx = [source_ppq |-> s, dest_ppq |-> d]
    /\ rpc = "new"
    /\ t_src = 0
    /\ t_dst = 0
    /\ t_back = 0

SpecContexts == InitContexts /\ [][NextRescaler]_vars

\* Files of one track with one note, whose velocity is any number that a
\* pretty_midi.Note can hold around the MIDI range 0..127.
Velocities == (0 - VelocitySlack)..(127 + VelocitySlack)

InitVelocities ==
    /\ InitAlloc /\ InitPass /\ InitResc /\ InitBatch /\ rnd = 0
    /\ \E r \in Resolutions, n \in Notes, v \in Velocities :
          midi = [resolution |-> r,
                  instruments |-> <<[is_drum |-> FALSE,
                                     notes |-> <<[n EXCEPT !.velocity = v]>>]>>]
    /\ cpc = "build"
    /\ clips = <<>>
    /\ log = <<>>

NextVelocities == Convert

SpecVelocities == InitVelocities /\ [][NextVelocities]_vars

InitBatches ==
    InitAlloc /\ InitPass /\ InitConv /\ InitResc /\ InitBatch /\ rnd = 0

NextBatches ==
    \/ \E af \in SeqsUpTo(AudioKinds, MaxFiles),
          mf \in SeqsUpTo(MidiKinds, MaxFiles) : RunFullProcess(af, mf)
    \/ ProcessAudioFile
    \/ CollectMidiFiles
    \/ \E mf \in SeqsUpTo(MidiKinds, MaxFiles) : RunUsingExistingMidi(mf)
    \/ ConvertMidiFile
    \/ FinishBatch

SpecBatches == InitBatches /\ [][NextBatches]_vars

(***************************************************************************)
(* C4: every get_unique_preset / get_unique_color call since the last      *)
(* clear returns a member of its pool that no earlier call since that      *)
(* clear returned and marks it used; a call raises exactly when every      *)
(* member of its pool has been issued (the 17th preset request, the 128th  *)
(* colour request), and a raising call leaves both used-sets unchanged.    *)
(***************************************************************************)
C4_PresetCall ==
    IF Range(issuedP) = Range(PRESET_NAMES)
    THEN /\ ret'.raised
         /\ used_presets' = used_presets
         /\ used_colors' = used_colors
    ELSE /\ ~ret'.raised
         /\ ret'.preset \in Range(PRESET_NAMES)
         /\ ret'.preset \notin Range(issuedP)
         /\ used_presets' = used_presets \cup {ret'.preset}
         /\ used_colors' = used_colors

C4_ColorCall ==
    IF Range(issuedC) = -63..63
    THEN /\ ret'.raised
         /\ used_presets' = used_presets
         /\ used_colors' = used_colors
    ELSE /\ ~ret'.raised
         /\ ret'.color \in -63..63
         /\ ret'.color \notin Range(issuedC)
         /\ used_colors' = used_colors \cup {ret'.color}
         /\ used_presets' = used_presets

C4_Issued ==
    /\ Distinct(issuedP) /\ Range(issuedP) = used_presets
    /\ Distinct(issuedC) /\ Range(issuedC) = used_colors
    /\ Len(PRESET_NAMES) = 16 /\ Cardinality(Range(COLOR_RANGE)) = 127
    /\ (ret.raised /\ ret.op = "preset" => Len(issuedP) = 16)
    /\ (ret.raised /\ ret.op = "color" => Len(issuedC) = 127)

C4_AllocatorDiscipline ==
    /\ []C4_Issued
    /\ [][(CallGetUniquePreset => C4_PresetCall)
          /\ (CallGetUniqueColor => C4_ColorCall)]_vars

\* The 128th colour request has just raised, after all 16 presets went out.
C4_Witness ==
    /\ ret.op = "color" /\ ret.raised
    /\ Len(issuedC) = 127 /\ Len(issuedP) = 16

(***************************************************************************)
(* Claims about inject_multiple_clips, checked under SpecInjector.         *)
(***************************************************************************)
Returned == pc = "done"

\* The attributes of the k-th clip element of the written document.
OutAttr(k) == output.sessionClips[k].attrib

\* C1: a pass given more than 16 clips returns False before the template is
\* loaded or anything is mutated: the used-sets and output.xml are as the pass
\* found them and no element of the template was ever read.
C1_TooManyClips ==
    Returned /\ Len(clip_data) > 16 =>
        /\ result = FALSE
        /\ output = prev_output
        /\ <<used_presets, used_colors>> = prev_used
        /\ session_clips = <<>>
        /\ template_clip = NoElem

\* 17 clips were refused on an injector whose used-sets were not empty.
C1_Witness ==
    /\ Returned /\ Len(clip_data) = 17 /\ result = FALSE
    /\ prev_used[1] # {} /\ WellFormedTemplate(template)

\* C2: N <= 16 well-formed clips injected into a well-formed template give
\* a document whose clips-container holds exactly N instrumentClip elements,
\* in input order, with pairwise distinct instrumentPresetName values out of
\* the 16 names and pairwise distinct colourOffset values in -63..63.
C2_ExactlyNClips ==
    Returned /\ WellFormedTemplate(template) /\ WellFormedClips(clip_data)
             /\ Len(clip_data) <= 16 =>
        /\ result = TRUE
        /\ output.kind = "document"
        /\ Len(output.sessionClips) = Len(clip_data)
        /\ \A k \in DOMAIN output.sessionClips :
              /\ output.sessionClips[k].tag = "instrumentClip"
              /\ OutAttr(k).length = PyStr(clip_data[k].length)
              /\ output.sessionClips[k].noteRows.rows
                     = row_elements(clip_data[k].note_rows)
              /\ OutAttr(k).instrumentPresetName \in Range(PRESET_NAMES)
              /\ PyInt(OutAttr(k).colourOffset) \in -63..63
        /\ \A k, m \in DOMAIN output.sessionClips : k # m =>
              /\ OutAttr(k).instrumentPresetName
                     # OutAttr(m).instrumentPresetName
              /\ OutAttr(k).colourOffset # OutAttr(m).colourOffset
              /\ PyInt(OutAttr(k).colourOffset) # PyInt(OutAttr(m).colourOffset)

\* 16 clips went into a template whose container held three other children.
C2_Witness ==
    /\ Returned /\ result = TRUE /\ Len(clip_data) = 16
    /\ template = T_busy /\ output.kind = "document"

\* C3: a pass never raises past its caller, and a pass that fails writes no
\* output document: output.xml is as the pass found it.
C3_FailureWritesNothing ==
    Returned =>
        /\ result \in BOOLEAN
        /\ (result = FALSE => output = prev_output)

\* C5: in a pass that reaches cloning the used-sets were cleared before the
\* first allocation and not since: they hold exactly the values this pass
\* allocated, and every step of the loop only adds to them. So a pass of
\* up to 16 well-formed clips succeeds whatever the injector issued before.
C5_ReachedCloning == template_clip # NoElem

C5_UsedIsThisPass ==
    /\ (C5_ReachedCloning =>
           /\ Range(issuedP) = used_presets /\ Distinct(issuedP)
           /\ Range(issuedC) = used_colors /\ Distinct(issuedC)
           /\ Len(issuedP) <= Len(session_clips) + 1
           /\ Len(session_clips) <= Len(issuedC))
    /\ (Returned /\ WellFormedTemplate(template) /\ WellFormedClips(clip_data)
           /\ Len(clip_data) <= 16 => result = TRUE)

C5_ResetOncePerPass ==
    /\ []C5_UsedIsThisPass
    /\ [][pc = "loop" => /\ used_presets \subseteq used_presets'
                         /\ used_colors \subseteq used_colors']_vars

\* A pass of 16 clips succeeded on an injector that had issued all 16 presets.
C5_Witness ==
    /\ Returned /\ result = TRUE /\ Len(clip_data) = 16
    /\ prev_used[1] = Range(PRESET_NAMES)

\* C18: a pass never changes the template clip: it stays the element found
\* in the loaded file, every clip of the output is a clone of it, and the
\* k-th clip of the output has the length and the note rows of the k-th clip
\* record (one noteRow per row, in order, with that row's y and
\* noteDataWithLift) and nothing of another record or of the template's rows.
C18_TemplateNeverMutated ==
    /\ (pc \in {"loop", "done"} /\ template_clip # NoElem) =>
          template_clip = find_instrument_clip(template.children)
    /\ (pc = "done" /\ result = TRUE) =>
          /\ output.kind = "document"
          /\ Len(output.sessionClips) = Len(clip_data)
          /\ \A k \in DOMAIN clip_data :
                LET clip == output.sessionClips[k]
                    rows == clip.noteRows.rows
                    data == clip_data[k]
                IN  /\ clip.tag = find_instrument_clip(template.children).tag
                    /\ DOMAIN clip.attrib
                          = DOMAIN find_instrument_clip(template.children).attrib
                              \cup {"section", "instrumentPresetName",
                                    "colourOffset", "length"}
                    /\ clip.attrib.length = PyStr(data.length)
                    /\ Len(rows) = Len(data.note_rows)
                    /\ \A j \in DOMAIN rows :
                          /\ rows[j].tag = "noteRow"
                          /\ rows[j].attrib.y = data.note_rows[j].y
                          /\ rows[j].attrib.noteDataWithLift
                                = data.note_rows[j].noteDataWithLift

\* A pass of three clips over a template whose clip has a note row of its
\* own: the third clip record has no rows, and so has the third output clip.
C18_Witness ==
    /\ pc = "done" /\ result = TRUE /\ Len(clip_data) = 3
    /\ find_instrument_clip(template.children).noteRows.rows # <<>>
    /\ clip_data[2].note_rows # <<>> /\ clip_data[3].note_rows = <<>>
    /\ output.sessionClips[3].noteRows.rows = <<>>
    /\ output.sessionClips[2].noteRows.rows # <<>>

(***************************************************************************)
(* Claims about convert_midi_to_clips, checked under SpecConverter.        *)
(***************************************************************************)
Converted == cpc = "converted"

\* The instruments that give a clip: not drum-flagged and with notes.
Surviving ==
    SelectSeq([k \in DOMAIN midi.instruments |-> k],
              LAMBDA k : /\ ~midi.instruments[k].is_drum
                         /\ midi.instruments[k].notes # <<>>)

\* The instrument the k-th clip was made from.
SourceOf(k) == midi.instruments[Surviving[k]]

HexDigitVal(c) == CHOOSE d \in 0..15 : HexDigit[d + 1] = c

RECURSIVE HexVal(_)
HexVal(s) == IF s = <<>> THEN 0
             ELSE 16 * HexVal(SubSeq(s, 1, Len(s) - 1)) + HexDigitVal(s[Len(s)])

\* The records of a lane string: what follows the prefix, cut every 22.
RecordCount(laneh) == (Len(laneh) - 2) \div 22

Record(laneh, k) == SubSeq(laneh, 2 + 22 * (k - 1) + 1, 2 + 22 * k)

RecordStart(rec) == HexVal(SubSeq(rec, 1, 8))

RecordDuration(rec) == HexVal(SubSeq(rec, 9, 16))

\* C6: the length of every clip is at least the rescaled end tick (rescaled
\* start plus rescaled duration, as the record holds them) of every record of
\* every one of its note rows.
C6_LengthCoversRecords ==
    Converted =>
        \A c \in DOMAIN clips :
            \A r \in DOMAIN clips[c].note_rows :
                LET laneh == clips[c].note_rows[r].noteDataWithLift
                IN  \A k \in 1..RecordCount(laneh) :
                        clips[c].length >= RecordStart(Record(laneh, k))
                                           + RecordDuration(Record(laneh, k))

\* A clip whose length had to be raised above the rescaled last end tick.
C6_Witness ==
    /\ Converted /\ Len(clips) = 1 /\ Len(midi.instruments) = 1
    /\ clips[1].length >
          convert_time(MaxOf({midi.instruments[1].notes[k].end :
                                 k \in DOMAIN midi.instruments[1].notes}),
                       midi.resolution, DEST_PPQ)

\* C7: the note rows of every clip are strictly ascending by pitch, and
\* there is exactly one row for each pitch that occurs in the track.
C7_RowsAscendingByPitch ==
    Converted =>
        /\ Len(clips) = Len(Surviving)
        /\ \A c \in DOMAIN clips :
              LET rows == clips[c].note_rows
                  notes == SourceOf(c).notes
              IN  /\ \A a, b \in DOMAIN rows :
                        a < b => PyInt(rows[a].y) < PyInt(rows[b].y)
                  /\ {PyInt(rows[a].y) : a \in DOMAIN rows}
                         = {notes[k].pitch : k \in DOMAIN notes}

\* Pitch 100 came before pitch 60 in the track, and pitch 100 came twice.
C7_Witness ==
    /\ Converted /\ Len(clips) = 1 /\ Len(midi.instruments) = 1
    /\ Len(midi.instruments[1].notes) = 3
    /\ midi.instruments[1].notes[1].pitch = 100
    /\ midi.instruments[1].notes[2].pitch = 60
    /\ midi.instruments[1].notes[3].pitch = 100
    /\ Len(clips[1].note_rows) = 2

C10_Lane(c, r) ==
    LET row == clips[c].note_rows[r]
        lane == sort_by_start(lane_notes(SourceOf(c).notes, PyInt(row.y)))
    IN  /\ RecordCount(row.noteDataWithLift) = Len(lane)
        /\ \A k \in DOMAIN lane :
              LET rec == Record(row.noteDataWithLift, k)
              IN  /\ RecordStart(rec) * midi.resolution * 2
                        \in (lane[k].start * DEST_PPQ * 2 - midi.resolution)
                            ..(lane[k].start * DEST_PPQ * 2 + midi.resolution)
                  /\ RecordDuration(rec) * midi.resolution * 2
                        \in ((lane[k].end - lane[k].start) * DEST_PPQ * 2
                                - midi.resolution)
                            ..((lane[k].end - lane[k].start) * DEST_PPQ * 2
                                + midi.resolution)
        /\ \A k \in 2..Len(lane) :
              /\ lane[k].start < lane[k - 1].end =>
                    [kind |-> "overlap", track |-> Surviving[c],
                     tick |-> lane[k].start, last |-> lane[k - 1].end]
                        \in Range(log)
              /\ lane[k].start <= lane[k - 1].start =>
                    [kind |-> "out_of_order", track |-> Surviving[c],
                     tick |-> lane[k].start, last |-> lane[k - 1].start]
                        \in Range(log)

C10_AnomaliesEncodedAndWarned ==
    Converted =>
        /\ Len(clips) = Len(Surviving)
        /\ \A c \in DOMAIN clips :
              \A r \in DOMAIN clips[c].note_rows : C10_Lane(c, r)

\* Two overlapping notes of pitch 60, the later-starting one first in the
\* track: both are encoded and the overlap is reported.
C10_Witness ==
    /\ Converted /\ Len(clips) = 1 /\ Len(midi.instruments) = 1
    /\ midi.instruments[1].notes
          = <<[pitch |-> 60, start |-> 1, end |-> 3, velocity |-> 100],
              [pitch |-> 60, start |-> 0, end |-> 2, velocity |-> 100]>>
    /\ RecordCount(clips[1].note_rows[1].noteDataWithLift) = 2
    /\ [kind |-> "overlap", track |-> 1, tick |-> 1, last |-> 2] \in Range(log)

\* C11: the conversion returns exactly one clip per track that is neither
\* drum-flagged nor empty, in track order: the k-th clip has one row per pitch
\* of the k-th such track and one record per note of it. A drum-flagged track
\* gives no clip even when it has notes, and an empty track gives none.
C11_OneClipPerSurvivingTrack ==
    Converted =>
        /\ Len(clips) = Len(Surviving)
        /\ \A k \in DOMAIN clips :
              LET rows == clips[k].note_rows
                  notes == SourceOf(k).notes
              IN  /\ {PyInt(rows[a].y) : a \in DOMAIN rows}
                         = {notes[n].pitch : n \in DOMAIN notes}
                  /\ \A a \in DOMAIN rows :
                        RecordCount(rows[a].noteDataWithLift)
                            = Cardinality({n \in DOMAIN notes :
                                  notes[n].pitch = PyInt(rows[a].y)})

\* A drum-flagged track with a note, then a track with two notes: one clip,
\* made from the second track.
C11_Witness ==
    /\ Converted /\ Len(midi.instruments) = 2
    /\ midi.instruments[1].is_drum /\ midi.instruments[1].notes # <<>>
    /\ ~midi.instruments[2].is_drum /\ Len(midi.instruments[2].notes) = 2
    /\ Len(clips) = 1
    /\ Len(clips[1].note_rows) = 2

\* C12: the velocity byte of every record is the velocity of its note
\* clamped to 0..127: 127 for a velocity above 127 and 0 for one below 0.
C12_VelocityClamped ==
    Converted =>
        \A c \in DOMAIN clips :
            \A r \in DOMAIN clips[c].note_rows :
                LET row == clips[c].note_rows[r]
                    lane == sort_by_start(lane_notes(SourceOf(c).notes,
                                                     PyInt(row.y)))
                IN  \A k \in DOMAIN lane :
                        SubSeq(Record(row.noteDataWithLift, k), 17, 18)
                            = FormatX(IF lane[k].velocity < 0 THEN 0
                                      ELSE IF lane[k].velocity > 127 THEN 127
                                      ELSE lane[k].velocity, 2)

\* C13: the record of a note with source ticks (start, end) is the 8 hex
\* digits of to_dest(start), the 8 hex digits of to_dest(end - start), the 2
\* hex digits of the velocity, then 40 and 14, so that the rescaled end of the
\* note is to_dest(start) + to_dest(end - start). With source_ppq = 220 a note
\* from 0 to 220 gives 00000000 00000030 vv 40 14.
C13_RecordLayout ==
    /\ note_record(convert_time(0, 220, DEST_PPQ),
                   convert_time(220 - 0, 220, DEST_PPQ), 100)
          = <<"0", "0", "0", "0", "0", "0", "0", "0",
              "0", "0", "0", "0", "0", "0", "3", "0",
              "6", "4", "4", "0", "1", "4">>
    /\ Converted =>
          \A c \in DOMAIN clips :
              \A r \in DOMAIN clips[c].note_rows :
                  LET row == clips[c].note_rows[r]
                      lane == sort_by_start(lane_notes(SourceOf(c).notes,
                                                       PyInt(row.y)))
                  IN  \A k \in DOMAIN lane :
                        LET rec == Record(row.noteDataWithLift, k)
                            s == convert_time(lane[k].start, midi.resolution,
                                              DEST_PPQ)
                            d == convert_time(lane[k].end - lane[k].start,
                                              midi.resolution, DEST_PPQ)
                        IN  /\ rec = FormatX(s, 8) \o FormatX(d, 8)
                                       \o FormatX(lane[k].velocity, 2)
                                       \o <<"4", "0", "1", "4">>
                            /\ RecordStart(rec) + RecordDuration(rec) = s + d

\* A note from tick 1 to tick 3 at 32 ticks per quarter note: its duration
\* field is to_dest(2) = 3, where to_dest(3) - to_dest(1) is 2.
C13_Witness ==
    /\ Converted /\ midi.resolution = 32 /\ Len(clips) = 1
    /\ Len(midi.instruments) = 1
    /\ midi.instruments[1].notes
          = <<[pitch |-> 60, start |-> 1, end |-> 3, velocity |-> 100]>>
    /\ RecordDuration(Record(clips[1].note_rows[1].noteDataWithLift, 1)) = 3
    /\ convert_time(3, 32, DEST_PPQ) - convert_time(1, 32, DEST_PPQ) = 2

\* C15: within every note row the records are in non-decreasing order of
\* their encoded start tick, whatever the order of the notes in the track.
C15_RecordsSortedByStart ==
    Converted =>
        \A c \in DOMAIN clips :
            \A r \in DOMAIN clips[c].note_rows :
                LET laneh == clips[c].note_rows[r].noteDataWithLift
                IN  \A k \in 1..(RecordCount(laneh) - 1) :
                        RecordStart(Record(laneh, k))
                            <= RecordStart(Record(laneh, k + 1))

\* Two notes of one pitch, the later one first in the track: the record of
\* the earlier note comes first in the row.
C15_Witness ==
    /\ Converted /\ Len(clips) = 1 /\ Len(midi.instruments) = 1
    /\ Len(midi.instruments[1].notes) = 2
    /\ midi.instruments[1].notes[1].pitch = midi.instruments[1].notes[2].pitch
    /\ midi.instruments[1].notes[1].start > midi.instruments[1].notes[2].start
    /\ LET laneh == clips[1].note_rows[1].noteDataWithLift
       IN  /\ RecordCount(laneh) = 2
           /\ RecordStart(Record(laneh, 1)) < RecordStart(Record(laneh, 2))

\* The notes of row r of clip c as the lane walk meets them.
LaneOf(c, r) ==
    sort_by_start(lane_notes(SourceOf(c).notes,
                             PyInt(clips[c].note_rows[r].y)))

\* Some note of the lane starts strictly before the end tick of a note that
\* precedes it in start order.
LaneOverlaps(lane) ==
    \E i, j \in DOMAIN lane : i < j /\ lane[j].start < lane[i].end

\* The walk of lines 169-217 over one lane logs an overlap warning.
LaneWarnsOverlap(lane, track_num) ==
    LET w == walk_lane(lane, [laneh |-> <<"0", "x">>, last_start |-> -1,
                              last_end |-> -1, clip_max |-> 0, log |-> <<>>],
                       track_num, midi.resolution)
    IN  \E m \in DOMAIN w.log : w.log[m].kind = "overlap"

\* C19: the walk compares a note with the one just before it only, yet a lane
\* gets at least one overlap warning exactly when some pair of its notes
\* overlaps; so the log of the conversion holds an overlap warning for a track
\* exactly when a lane of that track has an overlapping pair.
C19_OverlapDetectionComplete ==
    Converted =>
        \A c \in DOMAIN clips :
            /\ \A r \in DOMAIN clips[c].note_rows :
                  LaneWarnsOverlap(LaneOf(c, r), Surviving[c])
                      <=> LaneOverlaps(LaneOf(c, r))
            /\ (\E m \in DOMAIN log : /\ log[m].kind = "overlap"
                                      /\ log[m].track = Surviving[c])
                  <=> \E r \in DOMAIN clips[c].note_rows :
                          LaneOverlaps(LaneOf(c, r))

\* A lane of three notes whose third note overlaps the first but not the
\* second, the note just before it: an overlap warning is logged.
C19_Witness ==
    /\ Converted /\ Len(clips) = 1 /\ Len(clips[1].note_rows) = 1
    /\ LET lane == LaneOf(1, 1)
       IN  /\ Len(lane) = 3
           /\ lane[3].start < lane[1].end
           /\ ~(lane[3].start < lane[2].end)
    /\ \E m \in DOMAIN log : log[m].kind = "overlap"

(***************************************************************************)
(* Claims about ConversionContext, checked under SpecRescaler.             *)
(***************************************************************************)
Abs(x) == IF x < 0 THEN -x ELSE x

RoundTripExact ==
    (t_src * ctx.dest_ppq) % ctx.source_ppq = 0 => t_back = t_src

\* C9 as stated: convert_time_dtos(convert_time(t)) is within 1 tick of t for
\* all positive source_ppq and dest_ppq, and is t when t * dest_ppq is a
\* multiple of source_ppq.
C9_RoundTripWithinOne ==
    rpc = "back" => Abs(t_back - t_src) <= 1 /\ RoundTripExact

\* C9 as amended: the round trip is within (source_ppq + dest_ppq) /
\* (2 * dest_ppq) ticks of t, so within 1 tick when dest_ppq >= source_ppq,
\* and is t when t * dest_ppq is a multiple of source_ppq.
C9_RoundTripWithinRatio ==
    rpc = "back" =>
        /\ 2 * ctx.dest_ppq * Abs(t_back - t_src)
              <= ctx.source_ppq + ctx.dest_ppq
        /\ (ctx.dest_ppq >= ctx.source_ppq => Abs(t_back - t_src) <= 1)
        /\ RoundTripExact

\* A round trip through a coarser grid that lands 3 ticks off.
C9_Witness ==
    /\ rpc = "back" /\ ctx.dest_ppq < ctx.source_ppq
    /\ Abs(t_back - t_src) = 3

\* C14: convert_time(t) is t * dest_ppq / source_ppq rounded to the nearest
\* integer, a tie going to the even one, for every tick t and positive
\* source_ppq and dest_ppq, and it is monotone non-decreasing in t.
C14_RoundHalfEven ==
    rpc \in {"dest", "back"} =>
        LET n == t_src * ctx.dest_ppq
            s == ctx.source_ppq
        IN  /\ 2 * Abs(t_dst * s - n) <= s
            /\ 2 * Abs(t_dst * s - n) = s => t_dst % 2 = 0
            /\ convert_time(t_src - 1, s, ctx.dest_ppq) <= t_dst
            /\ t_dst <= convert_time(t_src + 1, s, ctx.dest_ppq)

\* A tie that went down to the even integer.
C14_Witness ==
    /\ rpc = "dest"
    /\ 2 * (t_src * ctx.dest_ppq - t_dst * ctx.source_ppq) = ctx.source_ppq
    /\ t_dst % 2 = 0

\* C16: with source_ppq <= 0 or dest_ppq <= 0 the rescaler fails: it never
\* returns a rescaled tick.
C16_NonPositivePpqFails ==
    rpc \in {"dest", "back"} => ctx.source_ppq > 0 /\ ctx.dest_ppq > 0

(***************************************************************************)
(* Claims about the batches and the constructor, checked under SpecBatches.*)
(***************************************************************************)
Reported(stage, unit) ==
    \E k \in DOMAIN reports : reports[k].stage = stage /\ reports[k].unit = unit

\* C17: a unit that fails is reported and skipped and the batch goes on: no
\* failure of a unit leaves the batch function as an exception, and when the
\* batch is over every audio file and every MIDI file of it was attempted.
C17_BatchNeverAborted ==
    /\ bpc # "raised"
    /\ bpc \in {"midi", "done"} =>
          \A u \in DOMAIN audio_files : Reported("audio", u)
    /\ bpc = "done" =>
          \A u \in DOMAIN midi_files : Reported("midi", u)

\* C20: when the MIDI file cannot be loaded the constructor logs the failure
\* and the error its caller sees is the loader's error.
C20_LoadErrorReraised ==
    /\ converter.error \in {"none", "load_error"}
    /\ converter.error = "load_error" =>
          "Failed to load MIDI file" \in Range(converter.logged)

====
